---- MODULE Spec2Model ----
(***************************************************************************)
(* Model of dashboard.py: the repeatable-task manager.                     *)
(*                                                                         *)
(* Time is counted in clock ticks; one second is UsPerSec ticks, so a      *)
(* datetime is a tick count and its sub-second part is (t % UsPerSec).     *)
(* Text typed into a QLineEdit is a sequence of character codes: 0..9 are  *)
(* the digits and NonDigit is any other character.                         *)
(***************************************************************************)
EXTENDS Integers, Sequences, FiniteSets, TLC

\* ---------------------------------------------------------------- bounds
MaxObjs == 2        \* Task objects created by one process
MaxNow == 2         \* last clock tick
MaxCount == 2       \* resets of one task
UsPerSec == 2       \* clock ticks per second

\* ---------------------------------------------------------------- inputs
NonDigit == 10
Names == {"", "a"}
NumberTexts == {<<NonDigit>>, <<0>>, <<1>>}

VARIABLES running, pc, pending, tasks, buttons, file, now, nextId, ev

vars == <<running, pc, pending, tasks, buttons, file, now, nextId, ev>>

\* ------------------------------------------------------ sequence helpers
\* the least member of a set of indices, 0 for the empty set
FirstOf(idxs) ==
    IF idxs = {} THEN 0 ELSE CHOOSE i \in idxs : \A j \in idxs : i <= j

\* the first place of the object id in the list ts, 0 when it is not there
IdIdx(ts, id) == FirstOf({i \in 1..Len(ts) : ts[i].id = id})

RemoveAt(s, i) == SubSeq(s, 1, i - 1) \o SubSeq(s, i + 1, Len(s))

\* ------------------------------------------------------------ int(text)
IntOK(txt) == Len(txt) > 0 /\ \A i \in 1..Len(txt) : txt[i] \in 0..9

RECURSIVE IntOf(_)
IntOf(txt) ==
    IF Len(txt) = 0 THEN 0
    ELSE 10 * IntOf(SubSeq(txt, 1, Len(txt) - 1)) + txt[Len(txt)]

\* --------------------------------------------- datetime <-> ISO-8601 text
\* isoformat() prints the fraction only when it is not zero
isoformat(t) ==
    IF t % UsPerSec = 0 THEN <<t \div UsPerSec>>
    ELSE <<t \div UsPerSec, t % UsPerSec>>

IsoOK(s) ==
    /\ Len(s) \in 1..2
    /\ s[1] >= 0
    /\ Len(s) = 2 => s[2] \in 0..(UsPerSec - 1)

fromisoformat(s) == s[1] * UsPerSec + (IF Len(s) = 2 THEN s[2] ELSE 0)

\* ------------------------------------------------------------------ Task
\* the default argument last_updated = 0 of Task.__init__; no datetime equals it
DefaultLastUpdated == -1

\* id is the identity of the object. resets is a history field, not a field of
\* the program: it counts the task_completed calls on the object
Task(id, name, tmin, tmax, last_updated, clock) ==
    [id |-> id, name |-> name, tmin |-> tmin, tmax |-> tmax,
     success_count |-> 0,
     last_updated |-> IF last_updated = DefaultLastUpdated THEN clock
                      ELSE last_updated,
     resets |-> 0]

time_since_last_update(task, clock) == clock - task.last_updated

\* reset_task that counts a completion twice
reset_task_twice(task, clock) ==
    [task EXCEPT !.last_updated = clock, !.success_count = @ + 2]

reset_task(task, clock) ==
    [task EXCEPT !.last_updated = clock, !.success_count = @ + 1]

\* ------------------------------------------------------- calculate_color
light_green == <<144, 238, 144>>
bright_red == <<255, 0, 0>>
black == <<0, 0, 0>>

Abs(n) == IF n < 0 THEN -n ELSE n

\* int(a / b): the quotient truncated toward zero
TruncDiv(a, b) ==
    IF (a < 0) = (b < 0) THEN Abs(a) \div Abs(b) ELSE -(Abs(a) \div Abs(b))

MinusSign == 16

RECURSIVE HexDigits(_)
HexDigits(n) == IF n < 16 THEN <<n>> ELSE HexDigits(n \div 16) \o <<n % 16>>

\* the format {n:x}, which pads nothing
Hex02_unpadded(n) ==
    IF n >= 0 THEN HexDigits(n) ELSE <<MinusSign>> \o HexDigits(-n)

\* the format {n:02x}
Hex02(n) ==
    IF n >= 0
    THEN IF n < 16 THEN <<0, n>> ELSE HexDigits(n)
    ELSE <<MinusSign>> \o HexDigits(-n)

HexColor(rgb) == Hex02(rgb[1]) \o Hex02(rgb[2]) \o Hex02(rgb[3])

\* a channel interpolated from the wrong end
Channel_swapped(from, to, num, den) == TruncDiv(to * den + (from - to) * num, den)

\* one channel: int(from + (to - from) * num / den)
Channel(from, to, num, den) == TruncDiv(from * den + (to - from) * num, den)

\* a time_diff that is not clamped to the span
Clamp_none(a, b) == a

\* min(time_diff - min_time, max_time - min_time)
Clamp(a, b) == IF a < b THEN a ELSE b

\* proportion = time_diff / (max_time - min_time) raises ZeroDivisionError
ColorRaises(time_diff, min_time, max_time) ==
    time_diff >= min_time * UsPerSec /\ max_time = min_time

\* time_diff is in ticks, min_time and max_time are in seconds
calculate_rgb(time_diff, min_time, max_time) ==
    IF time_diff < min_time * UsPerSec THEN light_green
    ELSE LET span == (max_time - min_time) * UsPerSec
             d == Clamp(time_diff - min_time * UsPerSec, span)
             \* proportion = d / span, compared with 0.5
             firstHalf == IF span > 0 THEN 2 * d < span ELSE 2 * d > span
         IN IF firstHalf
            THEN [c \in 1..3 |-> Channel(light_green[c], bright_red[c], 2 * d, span)]
            ELSE [c \in 1..3 |-> Channel(bright_red[c], black[c], 2 * d - span, span)]

calculate_color(time_diff, min_time, max_time) ==
    HexColor(calculate_rgb(time_diff, min_time, max_time))

\* ------------------------------------------------------------ TaskButton
TaskById(id) == tasks[CHOOSE i \in 1..Len(tasks) : tasks[i].id = id]

update_button_color(button, task, clock) ==
    [button EXCEPT !.color =
        calculate_color(time_since_last_update(task, clock), button.tmin, button.tmax)]

TaskButton(task, clock) ==
    update_button_color([task |-> task.id, tmin |-> task.tmin, tmax |-> task.tmax,
                         color |-> <<>>], task, clock)

\* ----------------------------------------------------------- persistence
AllKeys == {"task_name", "min_time", "max_time", "success_count", "last_updated"}

\* a JSON string holding ISO text
IsoString(v) == [isstr |-> TRUE, v |-> v]
\* the JSON number 0
NumberZero == [isstr |-> FALSE, v |-> <<0>>]

Absent == [kind |-> "absent", entries |-> <<>>]
Garbage == [kind |-> "garbage", entries |-> <<>>]
Json(entries) == [kind |-> "json", entries |-> entries]

\* the list save_tasks_json hands to json.dump
json_tasks(ts) ==
    [i \in 1..Len(ts) |->
        [keys |-> AllKeys,
         task_name |-> ts[i].name,
         min_time |-> ts[i].tmin,
         max_time |-> ts[i].tmax,
         success_count |-> ts[i].success_count,
         last_updated |-> IsoString(isoformat(ts[i].last_updated))]]

SaveOutcomes == {"ok", "open_failed", "write_failed"}

\* the file after save_tasks_json: open(.., "w") fails before touching the
\* file, a failure of json.dump leaves a truncated document
save_tasks_json(ts, f, outcome) ==
    IF outcome = "ok" THEN Json(json_tasks(ts))
    ELSE IF outcome = "open_failed" THEN f
    ELSE Garbage

EntryError(e) ==
    IF ~({"task_name", "min_time", "max_time", "last_updated"} \subseteq e.keys)
    THEN "KeyError"
    ELSE IF e.last_updated.isstr /\ ~IsoOK(e.last_updated.v) THEN "ValueError"
    ELSE "none"

\* the Task that load_tasks_json builds from one entry
EntryTask(e, id, clock) ==
    Task(id, e.task_name, e.min_time, e.max_time,
         IF e.last_updated.isstr THEN fromisoformat(e.last_updated.v)
         ELSE DefaultLastUpdated,      \* the inputs hold no number but 0
         clock)

\* open(TASKS_FILE, "r") and json.load(file): the exception raised
ReadError(f) ==
    IF f.kind = "absent" THEN "FileNotFoundError"
    ELSE IF f.kind = "garbage" THEN "JSONDecodeError"
    ELSE "none"

\* a load_tasks_json that has no except clause
Caught_nothing(err) == FALSE

\* except FileNotFoundError: return []
Caught(err) == err = "FileNotFoundError"

\* load_tasks_json on a store holding ts: the tasks afterwards, the exception
\* that leaves the method ("none" when it returns) and the objects created
load_tasks_json(ts, f, id0, clock) ==
    IF ReadError(f) # "none"
    THEN [tasks |-> ts,
          err |-> IF Caught(ReadError(f)) THEN "none" ELSE ReadError(f),
          created |-> 0]
    ELSE LET bad == FirstOf({i \in 1..Len(f.entries) : EntryError(f.entries[i]) # "none"})
             n == IF bad = 0 THEN Len(f.entries) ELSE bad - 1
         IN [tasks |-> ts \o [i \in 1..n |-> EntryTask(f.entries[i], id0 + i - 1, clock)],
             err |-> IF bad = 0 THEN "none" ELSE EntryError(f.entries[bad]),
             created |-> n]

\* ---------------------------------------------------------- initial files
GoodEntry ==
    [keys |-> AllKeys, task_name |-> "a", min_time |-> 0, max_time |-> 1,
     success_count |-> 0, last_updated |-> IsoString(<<0>>)]

InitialFiles ==
    {Absent,
     Garbage,
     Json(<<GoodEntry, [GoodEntry EXCEPT !.keys = AllKeys \ {"max_time"}]>>),
     Json(<<[GoodEntry EXCEPT !.last_updated = IsoString(<<>>)]>>),
     Json(<<[GoodEntry EXCEPT !.last_updated = NumberZero]>>)}

\* ------------------------------------------------------------------ state
\* ev is a history variable: the last operation, the Task object it was about
\* (0 for none), the exception that left it, how it ended ("dialog" while its
\* modal box is open) and the texts add_task read from its input fields
NoArgs == [name |-> "", min |-> <<>>, max |-> <<>>]

Event(op, task, err, res, args) ==
    [op |-> op, task |-> task, err |-> err, res |-> res, args |-> args]

Init ==
    /\ running = FALSE
    /\ pc = "idle"
    /\ pending = 0
    /\ tasks = <<>>
    /\ buttons = <<>>
    /\ file \in InitialFiles
    /\ now = 0
    /\ nextId = 1
    /\ ev = Event("none", 0, "none", "ok", NoArgs)

\* TaskManagerApp.__init__ run by main(). An exception ends the process;
\* tasks then shows what the store held when the exception left __init__
Start ==
    /\ ~running
    /\ LET r == load_tasks_json(<<>>, file, 1, now)
       IN /\ tasks' = r.tasks
          /\ nextId' = 1 + r.created
          /\ running' = (r.err = "none")
          /\ buttons' = IF r.err = "none"
                        THEN [i \in 1..Len(r.tasks) |-> TaskButton(r.tasks[i], now)]
                        ELSE <<>>
          /\ ev' = Event("init", 0, r.err, IF r.err = "none" THEN "ok" ELSE "raised",
                         NoArgs)
    /\ pc' = "idle"
    /\ pending' = 0
    /\ UNCHANGED <<file, now>>

\* the process has ended and its objects are gone
Exited ==
    /\ running' = FALSE
    /\ tasks' = <<>>
    /\ buttons' = <<>>
    /\ nextId' = 1

\* the window is closed and app.exec_() returns
Quit ==
    /\ running
    /\ pc = "idle"
    /\ Exited
    /\ ev' = Event("quit", 0, "none", "ok", NoArgs)
    /\ UNCHANGED <<pc, pending, file, now>>

\* datetime.now() moves on
AdvanceClock ==
    /\ now < MaxNow
    /\ now' = now + 1
    /\ ev' = Event("clock", 0, "none", "ok", NoArgs)
    /\ UNCHANGED <<running, pc, pending, tasks, buttons, file, nextId>>

\* An exception leaves a slot with the store as ts, the layout as bs and nid
\* the next object: PyQt5 either prints it and carries on or aborts the
\* process, depending on its version and on sys.excepthook
SlotRaised(ts, bs, nid) ==
    \/ /\ running' = TRUE
       /\ tasks' = ts
       /\ buttons' = bs
       /\ nextId' = nid
    \/ Exited

\* a guard that compares the thresholds with != instead of <
Accepted_unequal(task_name, task_min, task_max) ==
    task_name # "" /\ task_min # task_max

\* if task_name and task_min < task_max:
Accepted(task_name, task_min, task_max) ==
    task_name # "" /\ task_min < task_max

\* self.tasks.insert(0, task)
ListAppend_front(ts, task) == <<task>> \o ts

\* self.tasks.append(task)
ListAppend(ts, task) == Append(ts, task)

add_task(task_name, mintext, maxtext) ==
    LET args == [name |-> task_name, min |-> mintext, max |-> maxtext]
    IN
    /\ running
    /\ pc = "idle"
    /\ IF ~IntOK(mintext) \/ ~IntOK(maxtext)
       THEN /\ SlotRaised(tasks, buttons, nextId)
            /\ ev' = Event("add_task", 0, "ValueError", "raised", args)
            /\ file' = file
       ELSE IF Accepted(task_name, IntOf(mintext), IntOf(maxtext))
       THEN /\ nextId <= MaxObjs
            /\ LET task == Task(nextId, task_name, IntOf(mintext), IntOf(maxtext),
                                DefaultLastUpdated, now)
               IN \E outcome \in SaveOutcomes :
                     /\ file' = save_tasks_json(ListAppend(tasks, task), file, outcome)
                     /\ IF outcome = "ok"
                        THEN /\ tasks' = ListAppend(tasks, task)
                             /\ nextId' = nextId + 1
                             /\ buttons' = Append(buttons, TaskButton(task, now))
                             /\ running' = running
                             /\ ev' = Event("add_task", task.id, "none", "ok", args)
                        ELSE /\ SlotRaised(ListAppend(tasks, task), buttons, nextId + 1)
                             /\ ev' = Event("add_task", task.id, "OSError", "raised", args)
       ELSE /\ ev' = Event("add_task", 0, "none", "ignored", args)
            /\ UNCHANGED <<running, tasks, buttons, file, nextId>>
    /\ UNCHANGED <<pc, pending, now>>

AddTask == \E n \in Names, lo \in NumberTexts, hi \in NumberTexts : add_task(n, lo, hi)

\* the place of the Task object id in self.tasks
TaskIdx(id) == IdIdx(tasks, id)

\* the first button of the layout with button.task == task
ButtonIdx(id) == FirstOf({i \in 1..Len(buttons) : buttons[i].task = id})

\* the slot up to the modal QMessageBox.information
task_completed(i) ==
    /\ running
    /\ pc = "idle"
    /\ i \in 1..Len(buttons)
    /\ LET k == TaskIdx(buttons[i].task)
       IN /\ tasks[k].success_count < MaxCount
          /\ tasks' = [tasks EXCEPT ![k] = [reset_task(@, now) EXCEPT !.resets = @ + 1]]
          /\ buttons' = [buttons EXCEPT ![i] = update_button_color(@, tasks'[k], now)]
          /\ pending' = tasks[k].id
          /\ ev' = Event("task_completed", tasks[k].id, "none", "dialog", NoArgs)
    /\ pc' = "information"
    /\ UNCHANGED <<running, file, now, nextId>>

TaskCompleted == \E i \in 1..Len(buttons) : task_completed(i)

\* the information box is dismissed and task_completed returns
CloseInformation ==
    /\ running
    /\ pc = "information"
    /\ pc' = "idle"
    /\ pending' = 0
    /\ ev' = Event("task_completed", pending, "none", "ok", NoArgs)
    /\ UNCHANGED <<running, tasks, buttons, file, now, nextId>>

\* delete_task(task) up to the modal QMessageBox.question
delete_task(id) ==
    /\ running
    /\ pc = "idle"
    /\ pc' = "question"
    /\ pending' = id
    /\ ev' = Event("delete_task", id, "none", "dialog", NoArgs)
    /\ UNCHANGED <<running, tasks, buttons, file, now, nextId>>

\* a right click on a task button emits delete_task_signal(button.task)
RightClick == \E i \in 1..Len(buttons) : delete_task(buttons[i].task)

\* a removal that ignores a missing element, as list.discard would
NotInList_ignored(ts, id) == FALSE

\* list.remove(task) raises ValueError when no element == task; Task defines
\* no __eq__, so == is identity
NotInList(ts, id) == IdIdx(ts, id) = 0

\* list.remove(task) with a Task.__eq__ that compares names
ListRemove_byName(ts, id) ==
    LET target == ts[IdIdx(ts, id)]
    IN RemoveAt(ts, FirstOf({i \in 1..Len(ts) : ts[i].name = target.name}))

\* list.remove(task) removes the first element == task
ListRemove(ts, id) == RemoveAt(ts, IdIdx(ts, id))

\* delete_task from the answer of the question box to its return
delete_task_reply(yes) ==
    /\ running
    /\ pc = "question"
    /\ pc' = "idle"
    /\ pending' = 0
    /\ IF ~yes
       THEN /\ ev' = Event("delete_task", pending, "none", "declined", NoArgs)
            /\ UNCHANGED <<running, tasks, buttons, file, nextId>>
       ELSE IF NotInList(tasks, pending)
       THEN /\ SlotRaised(tasks, buttons, nextId)
            /\ ev' = Event("delete_task", pending, "ValueError", "raised", NoArgs)
            /\ file' = file
       ELSE IF ButtonIdx(pending) = 0
       THEN /\ tasks' = ListRemove(tasks, pending)
            /\ ev' = Event("delete_task", pending, "none", "ok", NoArgs)
            /\ UNCHANGED <<running, buttons, file, nextId>>
       ELSE \E outcome \in SaveOutcomes :
               /\ file' = save_tasks_json(ListRemove(tasks, pending), file, outcome)
               /\ IF outcome = "ok"
                  THEN /\ tasks' = ListRemove(tasks, pending)
                       /\ buttons' = RemoveAt(buttons, ButtonIdx(pending))
                       /\ ev' = Event("delete_task", pending, "none", "ok", NoArgs)
                       /\ UNCHANGED <<running, nextId>>
                  ELSE /\ SlotRaised(ListRemove(tasks, pending),
                                     RemoveAt(buttons, ButtonIdx(pending)), nextId)
                       /\ ev' = Event("delete_task", pending, "OSError", "raised", NoArgs)
    /\ now' = now

AnswerQuestion == \E yes \in BOOLEAN : delete_task_reply(yes)

\* a timer slot that also stamps every task, as a reset without the count
update_tasks_stamping ==
    /\ running
    /\ buttons' = [i \in 1..Len(buttons) |->
                      update_button_color(buttons[i], TaskById(buttons[i].task), now)]
    /\ tasks' = [i \in 1..Len(tasks) |-> [tasks[i] EXCEPT !.last_updated = now]]
    /\ ev' = Event("update_tasks", 0, "none", IF pc = "idle" THEN "ok" ELSE "dialog",
                   NoArgs)
    /\ UNCHANGED <<running, pc, pending, file, now, nextId>>

\* the timer slot; the timer also fires inside the event loop of a modal box
update_tasks ==
    /\ running
    /\ buttons' = [i \in 1..Len(buttons) |->
                      update_button_color(buttons[i], TaskById(buttons[i].task), now)]
    /\ ev' = Event("update_tasks", 0, "none", IF pc = "idle" THEN "ok" ELSE "dialog",
                   NoArgs)
    /\ UNCHANGED <<running, pc, pending, tasks, file, now, nextId>>

Next ==
    \/ Start
    \/ Quit
    \/ AdvanceClock
    \/ AddTask
    \/ TaskCompleted
    \/ CloseInformation
    \/ RightClick
    \/ AnswerQuestion
    \/ update_tasks

Spec == Init /\ [][Next]_vars

\* ------------------------------------------ the methods called directly
\* load_tasks_json() called on the running store
CallLoadTasksJson ==
    /\ running
    /\ pc = "idle"
    /\ nextId + Len(file.entries) <= MaxObjs + 1
    /\ LET r == load_tasks_json(tasks, file, nextId, now)
       IN /\ tasks' = r.tasks
          /\ nextId' = nextId + r.created
          /\ ev' = Event("load_tasks_json", 0, r.err,
                         IF r.err = "none" THEN "ok" ELSE "raised", NoArgs)
    /\ UNCHANGED <<running, pc, pending, buttons, file, now>>

\* delete_task(task) called with any Task object the process has created
CallDeleteTask == \E id \in 1..(nextId - 1) : delete_task(id)

NextApi == Next \/ CallLoadTasksJson \/ CallDeleteTask

SpecApi == Init /\ [][NextApi]_vars

\* ------------------------------------------- calculate_color on its own
\* the thresholds, in seconds, and the last time_diff, in ticks, it is called with
ThresholdValues == {0, 128, 256}
MaxElapsed == 516

\* a task last updated at tick 0 and its button, not yet coloured, at tick now:
\* time_since_last_update() is now
InitColor ==
    /\ running = TRUE
    /\ pc = "idle"
    /\ pending = 0
    /\ \E lo \in ThresholdValues, hi \in ThresholdValues :
          /\ tasks = <<Task(1, "a", lo, hi, 0, 0)>>
          /\ buttons = <<[task |-> 1, tmin |-> lo, tmax |-> hi, color |-> <<>>]>>
    /\ file = Absent
    /\ now \in 0..MaxElapsed
    /\ nextId = 2
    /\ ev = Event("none", 0, "none", "ok", NoArgs)

\* color_hex = calculate_color(time_diff, self.tmin, self.tmax)
CallCalculateColor ==
    /\ ev.op = "none"
    /\ LET time_diff == time_since_last_update(tasks[1], now)
       IN IF ColorRaises(time_diff, buttons[1].tmin, buttons[1].tmax)
          THEN /\ ev' = Event("calculate_color", 1, "ZeroDivisionError", "raised", NoArgs)
               /\ buttons' = buttons
          ELSE /\ ev' = Event("calculate_color", 1, "none", "ok", NoArgs)
               /\ buttons' = <<update_button_color(buttons[1], tasks[1], now)>>
    /\ UNCHANGED <<running, pc, pending, tasks, file, now, nextId>>

NextColor == CallCalculateColor

SpecColor == InitColor /\ [][NextColor]_vars

\* ================================================================ claims
\* the fields of a task that the program holds
TaskFields(t) ==
    [name |-> t.name, min_threshold |-> t.tmin, max_threshold |-> t.tmax,
     success_count |-> t.success_count, last_updated |-> t.last_updated]

FieldsOf(ts) == [i \in 1..Len(ts) |-> TaskFields(ts[i])]

\* the record lists the tasks ts: same order, same fields
RecordMatches(f, ts) ==
    /\ f.kind = "json"
    /\ Len(f.entries) = Len(ts)
    /\ \A i \in 1..Len(ts) :
          /\ f.entries[i].keys = AllKeys
          /\ f.entries[i].task_name = ts[i].name
          /\ f.entries[i].min_time = ts[i].tmin
          /\ f.entries[i].max_time = ts[i].tmax
          /\ f.entries[i].success_count = ts[i].success_count
          /\ f.entries[i].last_updated = IsoString(isoformat(ts[i].last_updated))

\* C1: once add_task, task_completed or delete_task has returned without an
\* error, the persisted record lists the in-memory tasks, in order, with the
\* same name, thresholds, success_count and last_updated.
C1_MutationPersisted ==
    (/\ running
     /\ ev.op \in {"add_task", "task_completed", "delete_task"}
     /\ ev.err = "none"
     /\ ev.res = "ok")
    => RecordMatches(file, tasks)

\* C2: saving the task list and loading the record into a fresh store gives
\* the same list: same length and order, and for every task the same name,
\* thresholds, success_count and last_updated.
C2_RoundTrip ==
    running =>
        LET r == load_tasks_json(<<>>, save_tasks_json(tasks, file, "ok"), 1, now)
        IN r.err = "none" /\ FieldsOf(r.tasks) = FieldsOf(tasks)

\* C3: a reset adds exactly 1 to the success_count of the task it is about and
\* sets its last_updated to the time of the reset, leaving the other tasks
\* alone; and every task's success_count is the number of its resets, never
\* negative.
C3_ResetStep ==
    (pc = "idle" /\ pc' = "information") =>
        \E k \in 1..Len(tasks) :
            /\ tasks[k].id = ev'.task
            /\ Len(tasks') = Len(tasks)
            /\ tasks'[k].success_count = tasks[k].success_count + 1
            /\ tasks'[k].last_updated = now
            /\ \A j \in 1..Len(tasks) : j # k => tasks'[j] = tasks[j]

C3_CountsResets ==
    \A i \in 1..Len(tasks) :
        tasks[i].success_count = tasks[i].resets /\ tasks[i].success_count >= 0

C3_Reset == [][C3_ResetStep]_vars /\ []C3_CountsResets

C3_Witness ==
    /\ running
    /\ ev.op = "task_completed"
    /\ now > 0
    /\ \E i \in 1..Len(tasks) :
          /\ tasks[i].id = ev.task
          /\ tasks[i].success_count = 2
          /\ tasks[i].last_updated = now

\* the input of add_task is rejected: empty name, a threshold that is no
\* integer, or min_t >= max_t
InvalidInput(args) ==
    \/ args.name = ""
    \/ ~IntOK(args.min)
    \/ ~IntOK(args.max)
    \/ IntOf(args.min) >= IntOf(args.max)

\* C4: add_task with an empty name, min_t >= max_t or a non-integer threshold
\* reports an error to its caller and leaves the task list and the persisted
\* record unchanged.
C4_InvalidAddFails ==
    [][(ev'.op = "add_task" /\ InvalidInput(ev'.args)) =>
          /\ ev'.err # "none"
          /\ file' = file
          /\ running' => tasks' = tasks]_vars

\* C5: a successful add_task appends one task, with the name and thresholds
\* given, success_count 0 and last_updated now, after the tasks already stored,
\* which keep their fields and order; and the stored tasks are always listed
\* in the order in which they were created.
C5_AddStep ==
    (ev'.op = "add_task" /\ ev'.err = "none" /\ ev'.res = "ok") =>
        /\ Len(tasks') = Len(tasks) + 1
        /\ SubSeq(tasks', 1, Len(tasks)) = tasks
        /\ TaskFields(tasks'[Len(tasks')]) =
              [name |-> ev'.args.name,
               min_threshold |-> IntOf(ev'.args.min),
               max_threshold |-> IntOf(ev'.args.max),
               success_count |-> 0,
               last_updated |-> now]

C5_CreationOrder ==
    \A i \in 1..Len(tasks) : \A j \in 1..Len(tasks) :
        i < j => tasks[i].id < tasks[j].id

C5_AddAppends == [][C5_AddStep]_vars /\ []C5_CreationOrder

C5_Witness ==
    /\ running
    /\ ev.op = "add_task"
    /\ ev.res = "ok"
    /\ Len(tasks) = 2
    /\ tasks[2].id = ev.task
    /\ tasks[1].success_count > 0
    /\ tasks[1].last_updated < tasks[2].last_updated

\* C6: a confirmed delete_task of a stored task removes that very object and
\* nothing else: the store shrinks by one and the other tasks keep their
\* fields and their order, also when they have the name of the removed one.
C6_DeleteStep ==
    (/\ pc = "question"
     /\ pc' = "idle"
     /\ ev'.res # "declined"
     /\ running'
     /\ \E k \in 1..Len(tasks) : tasks[k].id = pending)
    => \E k \in 1..Len(tasks) :
          /\ tasks[k].id = pending
          /\ tasks' = RemoveAt(tasks, k)
          /\ \A j \in 1..Len(tasks') : tasks'[j].id # pending

C6_DeleteByIdentity == [][C6_DeleteStep]_vars

\* the second of two tasks of the same name was deleted and the first is left
C6_Witness ==
    /\ running
    /\ ev.op = "delete_task"
    /\ ev.res = "ok"
    /\ Len(tasks) = 1
    /\ tasks[1].id < ev.task
    /\ tasks[1].name = "a"

\* C7: a confirmed delete_task of a task that is not in the store raises the
\* not-found error of list.remove (ValueError) and leaves the task list, the
\* buttons and the persisted record unchanged.
C7_DeleteAbsentStep ==
    (/\ pc = "question"
     /\ pc' = "idle"
     /\ ev'.res # "declined"
     /\ \A k \in 1..Len(tasks) : tasks[k].id # pending)
    => /\ ev'.err = "ValueError"
       /\ ev'.res = "raised"
       /\ file' = file
       /\ running' => (tasks' = tasks /\ buttons' = buttons)

C7_DeleteAbsentFails == [][C7_DeleteAbsentStep]_vars

C7_Witness ==
    /\ running
    /\ ev.op = "delete_task"
    /\ ev.err = "ValueError"
    /\ tasks # <<>>
    /\ \A k \in 1..Len(tasks) : tasks[k].id # ev.task

\* C8: when the persisted record does not exist, construction loads an empty
\* store and no error reaches the caller.
C8_MissingFileEmptyStore ==
    (ev.op = "init" /\ file.kind = "absent") =>
        (ev.err = "none" /\ running /\ tasks = <<>> /\ buttons = <<>>)

C8_Witness == ev.op = "init" /\ file.kind = "absent" /\ running

\* the record exists and is malformed: it is not parseable, or an entry lacks
\* a field or carries a timestamp that is no ISO text
Malformed(f) ==
    \/ f.kind = "garbage"
    \/ /\ f.kind = "json"
       /\ \E i \in 1..Len(f.entries) :
             \/ f.entries[i].keys # AllKeys
             \/ f.entries[i].last_updated.isstr /\ ~IsoOK(f.entries[i].last_updated.v)

\* C9: loading a malformed record fails soft: no error reaches the caller and
\* the store is empty, with no prefix of the record loaded.
C9_MalformedFailsSoft ==
    (ev.op = "init" /\ Malformed(file)) => (ev.err = "none" /\ tasks = <<>>)

\* C10: after load_tasks_json the store holds exactly the tasks of the record,
\* whatever it held before.
C10_LoadReplaces ==
    (ev.op = "load_tasks_json" /\ ev.err = "none") =>
        /\ Len(tasks) = Len(file.entries)
        /\ \A i \in 1..Len(tasks) :
              /\ tasks[i].name = file.entries[i].task_name
              /\ tasks[i].tmin = file.entries[i].min_time
              /\ tasks[i].tmax = file.entries[i].max_time

\* C11: every task in the store has min_threshold < max_threshold, whether it
\* was added or loaded from a record.
C11_ThresholdsOrdered ==
    \A i \in 1..Len(tasks) : tasks[i].tmin < tasks[i].tmax

\* construction has loaded two tasks from a record that save wrote
C11_Witness ==
    /\ running
    /\ ev.op = "init"
    /\ Len(tasks) = 2
    /\ file.kind = "json"
    /\ \A i \in 1..Len(file.entries) : file.entries[i].last_updated.isstr

\* calculate_color has been called with elapsed ticks and thresholds lo, hi
Called == ev.op = "calculate_color"
elapsed == now
min_t == buttons[1].tmin
max_t == buttons[1].tmax
Returned(hex) == ev.err = "none" /\ buttons[1].color = hex

\* C12: with min_t < max_t, every elapsed up to and including min_t gives
\* light green, #90ee90.
C12_FreshIsLightGreen ==
    (Called /\ min_t < max_t /\ elapsed <= min_t * UsPerSec)
    => Returned(<<9, 0, 14, 14, 9, 0>>)

C12_Witness ==
    Called /\ min_t < max_t /\ min_t > 0 /\ elapsed = min_t * UsPerSec

\* C13: with min_t < max_t, every elapsed from max_t on gives black, #000000.
C13_OverdueIsBlack ==
    (Called /\ min_t < max_t /\ elapsed >= max_t * UsPerSec)
    => Returned(<<0, 0, 0, 0, 0, 0>>)

C13_Witness ==
    Called /\ min_t < max_t /\ elapsed > max_t * UsPerSec

\* C14: with min_t < max_t, elapsed = min_t + (max_t - min_t) / 2 gives
\* bright red, #ff0000.
C14_MidpointIsRed ==
    (Called /\ min_t < max_t
       /\ 2 * elapsed = 2 * min_t * UsPerSec + (max_t - min_t) * UsPerSec)
    => Returned(<<15, 15, 0, 0, 0, 0>>)

C14_Witness ==
    /\ Called
    /\ min_t < max_t
    /\ 2 * elapsed = 2 * min_t * UsPerSec + (max_t - min_t) * UsPerSec

\* the green channel of a colour #rrggbb
GreenOf(hex) == 16 * hex[3] + hex[4]

\* C15: with min_t < max_t and elapsed between them, the green channel is not
\* above its value one tick earlier, and a colour given at an earlier tick
\* has been given at every tick since.
C15_Monotone ==
    (Called /\ min_t < max_t
       /\ min_t * UsPerSec <= elapsed /\ elapsed <= max_t * UsPerSec)
    => /\ ev.err = "none"
       /\ \A e \in (min_t * UsPerSec)..(elapsed - 1) :
             /\ GreenOf(calculate_color(e, min_t, max_t)) >= GreenOf(buttons[1].color)
             /\ calculate_color(e, min_t, max_t) = buttons[1].color
                   => calculate_color(e + 1, min_t, max_t) = buttons[1].color

\* C16: called with min_t >= max_t, calculate_color fails with InvalidRange.
C16_InvalidRange ==
    (Called /\ min_t >= max_t) => ev.err = "InvalidRange"

\* the step is task_completed's call of task.reset_task() on the object id
ResetOf(id) == ev'.op = "task_completed" /\ ev'.res = "dialog" /\ ev'.task = id

\* C17: a Task object that is in the store before and after a step keeps its
\* name, min_time and max_time, and keeps its last_updated and success_count
\* unless the step is a reset of that same task.
C17_Step ==
    \A id \in 1..MaxObjs :
       (IdIdx(tasks, id) # 0 /\ IdIdx(tasks', id) # 0)
       => LET old == tasks[IdIdx(tasks, id)]
              new == tasks'[IdIdx(tasks', id)]
          IN /\ new.name = old.name
             /\ new.tmin = old.tmin
             /\ new.tmax = old.tmax
             /\ (new.last_updated # old.last_updated
                   \/ new.success_count # old.success_count) => ResetOf(id)

C17_MutatedOnlyByReset == [][C17_Step]_vars

\* a recolor tick has run on a store with a task reset earlier
C17_Witness ==
    /\ ev.op = "update_tasks"
    /\ \E i \in 1..Len(tasks) :
          tasks[i].success_count > 0 /\ tasks[i].last_updated < now

\* C18: a recolor tick is dispatched only between handlers, never while
\* task_completed or delete_task has started and not yet returned, their
\* modal boxes included.
C18_NoTickInsideHandler == ev.op = "update_tasks" => pc = "idle"

\* C19: whenever no handler is running, the buttons of the layout and the
\* tasks of the store correspond one to one, in the same order.
C19_ButtonsMatchStore ==
    (running /\ pc = "idle")
    => /\ Len(buttons) = Len(tasks)
       /\ \A i \in 1..Len(buttons) : buttons[i].task = tasks[i].id

\* the record f, an absent one read as empty, lists the tasks ts: same
\* order, same name and thresholds
SameTasks(f, ts) ==
    /\ f.kind \in {"absent", "json"}
    /\ Len(f.entries) = Len(ts)
    /\ \A i \in 1..Len(ts) :
          /\ {"task_name", "min_time", "max_time"} \subseteq f.entries[i].keys
          /\ f.entries[i].task_name = ts[i].name
          /\ f.entries[i].min_time = ts[i].tmin
          /\ f.entries[i].max_time = ts[i].tmax

\* C20: after the load of __init__ and after every add_task, task_completed
\* and delete_task that has returned without an error, a declined delete
\* included, the record lists the tasks of the store.
C20_RecordListsStore ==
    (/\ running
     /\ ev.op \in {"init", "add_task", "task_completed", "delete_task"}
     /\ ev.err = "none"
     /\ ev.res \in {"ok", "declined"})
    => SameTasks(file, tasks)

====
